---- MODULE Spec2Model ----
(***************************************************************************)
(* Model of words.cpp / words.c: a 26-way trie of lowercase words, the     *)
(* word-break search isLeafBreak, the recursive concatWord, the loader     *)
(* ReadWordFile, the longest-first driver loop of main and trieDestroy.    *)
(* The two source files hold the same code; line numbers in the comments   *)
(* are those of words.cpp.                                                 *)
(*                                                                         *)
(* Words are sequences of character codes.  Position i of a C string       *)
(* (0-based) is element i+1 of the sequence.  Node addresses are positive  *)
(* integers handed out by malloc, NULL is 0.  malloc is taken to succeed   *)
(* and to return the lowest address never handed out before.               *)
(***************************************************************************)
EXTENDS Integers, Sequences, FiniteSets, TLC

\* ---------------------------------------------------------------- bounds
\* Slots of a node's child array (the program uses 26).
CHAR_SIZE == 2
\* Longest word of the input file, and longest queried word.
MaxLen == 3
\* Letters in the whole input file.
MaxChars == 6

\* ------------------------------------------------------------- constants
NULL == 0
\* The code of 'a', which insertWord and isLeafBreak subtract.
ORD_A == 97

\* The lowercase letters the modelled input draws from: 'a' and 'b'.
Letters == {ORD_A, ORD_A + 1}
Words == UNION {[1..n -> Letters] : n \in 1..MaxLen}

Max(S) == CHOOSE x \in S : \A y \in S : y <= x
Min(S) == CHOOSE x \in S : \A y \in S : x <= y

\* ------------------------------------------------------------------ trie
\* A node as create leaves it: isLeaf false, every child NULL.
EmptyNode == [isLeaf |-> FALSE, character |-> [c \in 0..(CHAR_SIZE - 1) |-> NULL]]

\* malloc(sizeof(trie)): a fresh address.
malloc(h) == Cardinality(DOMAIN h) + 1

\* create(node): allocates when node is NULL, then clears the node.
create(h, node) ==
    LET n == IF node = NULL THEN malloc(h) ELSE node
    IN  [heap |-> (n :> EmptyNode) @@ h, node |-> n]

\* insertWord(node, str): the heap after the call (it returns node itself).
RECURSIVE insertWord(_, _, _)

\* Variant: every node on the path is flagged, not only the last.
insertWord_markAll(h, node, str) ==
    IF str = <<>>
    THEN [h EXCEPT ![node].isLeaf = TRUE]
    ELSE LET ch   == Head(str) - ORD_A
             edge == h[node].character[ch]
             c    == IF edge = NULL THEN create(h, edge)
                                    ELSE [heap |-> h, node |-> edge]
             h1   == [c.heap EXCEPT ![node].character[ch] = c.node,
                                    ![c.node].isLeaf = TRUE]
             h2   == insertWord(h1, c.node, Tail(str))
         IN  [h2 EXCEPT ![node].character[ch] = c.node]

\* Variant: create runs on the edge without the NULL test, clearing a node
\* that exists.
insertWord_recreate(h, node, str) ==
    IF str = <<>>
    THEN [h EXCEPT ![node].isLeaf = TRUE]
    ELSE LET ch   == Head(str) - ORD_A
             edge == h[node].character[ch]
             c    == create(h, edge)
             h1   == [c.heap EXCEPT ![node].character[ch] = c.node]
             h2   == insertWord(h1, c.node, Tail(str))
         IN  [h2 EXCEPT ![node].character[ch] = c.node]

\* Variant: a new node is allocated for the edge whether or not one exists.
insertWord_realloc(h, node, str) ==
    IF str = <<>>
    THEN [h EXCEPT ![node].isLeaf = TRUE]
    ELSE LET ch   == Head(str) - ORD_A
             c    == create(h, NULL)
             h1   == [c.heap EXCEPT ![node].character[ch] = c.node]
             h2   == insertWord(h1, c.node, Tail(str))
         IN  [h2 EXCEPT ![node].character[ch] = c.node]

insertWord(h, node, str) ==
    IF str = <<>>
    THEN [h EXCEPT ![node].isLeaf = TRUE]
    ELSE LET ch   == Head(str) - ORD_A
             edge == h[node].character[ch]
             c    == IF edge = NULL THEN create(h, edge)
                                    ELSE [heap |-> h, node |-> edge]
             \* edge is a reference to node->character[ch]
             h1   == [c.heap EXCEPT ![node].character[ch] = c.node]
             h2   == insertWord(h1, c.node, Tail(str))
         IN  [h2 EXCEPT ![node].character[ch] = c.node]

\* isLeafBreak(node, str, start, end, mid): the loop of lines 91-105 from
\* position i with subnode reached, then lines 106-107.
RECURSIVE isLeafBreakLoop(_, _, _, _, _, _)

\* Variant: the break test is i > mid.
isLeafBreakLoop_strict(h, subnode, str, i, end, mid) ==
    IF i > end
    THEN [ret |-> h[subnode].isLeaf, mid |-> end]
    ELSE LET ch == str[i + 1] - ORD_A
         IN  IF h[subnode].character[ch] = NULL
             THEN [ret |-> FALSE, mid |-> mid]
             ELSE LET nxt == h[subnode].character[ch]
                  IN  IF i > mid /\ h[nxt].isLeaf
                      THEN [ret |-> TRUE, mid |-> i]
                      ELSE isLeafBreakLoop(h, nxt, str, i + 1, end, mid)

isLeafBreakLoop(h, subnode, str, i, end, mid) ==
    IF i > end
    THEN [ret |-> h[subnode].isLeaf, mid |-> end]
    ELSE LET ch == str[i + 1] - ORD_A
         IN  IF h[subnode].character[ch] = NULL
             THEN [ret |-> FALSE, mid |-> mid]
             ELSE LET nxt == h[subnode].character[ch]
                  IN  IF i >= mid /\ h[nxt].isLeaf
                      THEN [ret |-> TRUE, mid |-> i]
                      ELSE isLeafBreakLoop(h, nxt, str, i + 1, end, mid)

isLeafBreak(h, node, str, start, end, mid) ==
    isLeafBreakLoop(h, node, str, start, end, mid)

\* concatWord(node, str, start, end, result): the returned count, the
\* result flag, and brk, the value of i when it returned (-1 when the
\* range is empty).
RECURSIVE concatWord(_, _, _, _, _)
RECURSIVE concatLoop(_, _, _, _, _, _)

\* Variant: gives up when the first split fails.
concatLoop_firstOnly(h, node, str, start, end, i) ==
    IF i > end
    THEN [result |-> FALSE, cnt |-> 0, brk |-> i]
    ELSE LET b  == isLeafBreak(h, node, str, start, end, i)
             i1 == b.mid
         IN  IF i1 = end
             THEN [result |-> b.ret, cnt |-> IF b.ret THEN 1 ELSE 0, brk |-> i1]
             ELSE LET two == concatWord(h, node, str, i1 + 1, end)
                  IN  IF b.ret /\ two.result
                      THEN [result |-> TRUE, cnt |-> 1 + two.cnt, brk |-> i1]
                      ELSE [result |-> FALSE, cnt |-> 0, brk |-> i1]

\* Variant: returns the rest's count without counting the first piece.
concatLoop_dropCount(h, node, str, start, end, i) ==
    IF i > end
    THEN [result |-> FALSE, cnt |-> 0, brk |-> i]
    ELSE LET b  == isLeafBreak(h, node, str, start, end, i)
             i1 == b.mid
         IN  IF i1 = end
             THEN [result |-> b.ret, cnt |-> IF b.ret THEN 1 ELSE 0, brk |-> i1]
             ELSE LET two == concatWord(h, node, str, i1 + 1, end)
                  IN  IF b.ret /\ two.result
                      THEN [result |-> TRUE, cnt |-> two.cnt, brk |-> i1]
                      ELSE concatLoop(h, node, str, start, end, i1 + 1)

concatLoop(h, node, str, start, end, i) ==
    IF i > end
    THEN [result |-> FALSE, cnt |-> 0, brk |-> i]
    ELSE LET b  == isLeafBreak(h, node, str, start, end, i)
             i1 == b.mid
         IN  IF i1 = end
             THEN [result |-> b.ret, cnt |-> IF b.ret THEN 1 ELSE 0, brk |-> i1]
             ELSE LET two == concatWord(h, node, str, i1 + 1, end)
                  IN  IF b.ret /\ two.result
                      THEN [result |-> TRUE, cnt |-> 1 + two.cnt, brk |-> i1]
                      ELSE concatLoop(h, node, str, start, end, i1 + 1)

concatWord(h, node, str, start, end) ==
    IF start > end
    THEN [result |-> FALSE, cnt |-> 0, brk |-> -1]
    ELSE concatLoop(h, node, str, start, end, start)

\* ----------------------------------------------------------------- state
VARIABLES
    pc,               \* where main is: "read", "outer", "inner", "call",
                      \* "destroy", "done"
    heap,             \* every node malloc returned: address -> node
    root,             \* main's root pointer
    input,            \* the words read from the file so far, in file order
    wordsWithSameLen, \* map: length -> list of the words of that length
    LengthSet,        \* set of the lengths seen
    cntWords,         \* words read
    rit,              \* the reverse iterator over LengthSet: the length it
                      \* points to, 0 at rend
    it,               \* the iterator over the current list: a 1-based index
    found,            \* main's found
    cntConcat,        \* main's cntConcat
    foundWords,       \* main's foundWords
    output,           \* the lines written to the output file
    console,          \* the labelled console lines: <<label, word>>
    visited,          \* the words main has passed to concatWord, in order
    stack,            \* the active calls of concatWord, innermost last
    ret,              \* what the last concatWord call returned
    dstack,           \* the active calls of trieDestroy, innermost last
    freeLog,          \* the addresses passed to free, in order
    memFault,         \* a freed node was read, written or freed again
    destroyCalls      \* top-level calls of trieDestroy made so far

vars == <<pc, heap, root, input, wordsWithSameLen, LengthSet, cntWords, rit, it,
          found, cntConcat, foundWords, output, console, visited, stack, ret,
          dstack, freeLog, memFault, destroyCalls>>

readVars == <<heap, root, input, wordsWithSameLen, LengthSet, cntWords>>
mainVars == <<rit, it, found, cntConcat, foundWords, output, console, visited>>
segVars  == <<stack, ret>>
memVars  == <<dstack, freeLog, memFault, destroyCalls>>

RECURSIVE SumLen(_)
SumLen(ws) == IF ws = <<>> THEN 0 ELSE Len(Head(ws)) + SumLen(Tail(ws))

NoRet == [valid |-> FALSE, result |-> FALSE, cnt |-> 0]

\* main up to the loop of ReadWordFile: root = create(NULL), the rest empty.
Init ==
    /\ pc = "read"
    /\ heap = create(<<>>, NULL).heap
    /\ root = create(<<>>, NULL).node
    /\ input = <<>>
    /\ wordsWithSameLen = <<>>
    /\ LengthSet = {}
    /\ cntWords = 0
    /\ rit = 0
    /\ it = 0
    /\ found = FALSE
    /\ cntConcat = 0
    /\ foundWords = 0
    /\ output = <<>>
    /\ console = <<>>
    /\ visited = <<>>
    /\ stack = <<>>
    /\ ret = NoRet
    /\ dstack = <<>>
    /\ freeLog = <<>>
    /\ memFault = FALSE
    /\ destroyCalls = 0

\* ---------------------------------------------------------- ReadWordFile
\* One pass of the loop of ReadWordFile (lines 151-158) on the word w.
ReadWord(w) ==
    /\ pc = "read"
    /\ SumLen(input) + Len(w) <= MaxChars
    /\ heap' = insertWord(heap, root, w)
    /\ wordsWithSameLen' =
         LET len == Len(w)
             old == IF len \in DOMAIN wordsWithSameLen
                    THEN wordsWithSameLen[len] ELSE <<>>
         IN  (len :> Append(old, w)) @@ wordsWithSameLen
    /\ LengthSet' = LengthSet \cup {Len(w)}
    /\ cntWords' = cntWords + 1
    /\ input' = Append(input, w)
    /\ UNCHANGED <<pc, root, mainVars, segVars, memVars>>

\* Variant: the iteration starts at the smallest length.
rbegin_min(S) == IF S = {} THEN 0 ELSE Min(S)

\* set<size_t>::rbegin and the reverse iterator's increment; 0 is rend.
rbegin(S) == IF S = {} THEN 0 ELSE Max(S)
rnext(S, x) == rbegin({y \in S : y < x})

\* End of the file: ReadWordFile returns, main sets up the loop (184-195).
ReadEOF ==
    /\ pc = "read"
    /\ pc' = "outer"
    /\ foundWords' = 0
    /\ cntConcat' = 0
    /\ rit' = rbegin(LengthSet)
    /\ UNCHANGED <<readVars, it, found, output, console, visited, segVars, memVars>>

\* ------------------------------------------------------------ concatWord
\* A frame of concatWord: its range, its loop variable i, bPartOne, where
\* it is ("loop": at the loop test, "wait": in the recursive call of line
\* 130) and the passes of the loop body it has begun.
Frame(start, end) ==
    [start |-> start, end |-> end, i |-> start, bPartOne |-> FALSE,
     at |-> "loop", iters |-> 0]

Top(s) == s[Len(s)]
Pop(s) == SubSeq(s, 1, Len(s) - 1)
SetTop(s, f) == [s EXCEPT ![Len(s)] = f]

\* The word main is testing.
str == wordsWithSameLen[rit][it]

\* concatWord is entered with the range start..end (lines 114-119).
SegCall(start, end) ==
    IF start > end
    THEN /\ ret' = [valid |-> TRUE, result |-> FALSE, cnt |-> 0]
         /\ stack' = stack
    ELSE /\ ret' = NoRet
         /\ stack' = Append(stack, Frame(start, end))

SegReturn(result, cnt) ==
    /\ ret' = [valid |-> TRUE, result |-> result, cnt |-> cnt]
    /\ stack' = Pop(stack)

\* The loop test and lines 121-130: isLeafBreak moves i, then either the
\* return of line 125 or the recursive call.
SegIter ==
    /\ pc = "call"
    /\ stack # <<>>
    /\ Top(stack).at = "loop"
    /\ LET f == Top(stack)
       IN  IF f.i > f.end
           THEN SegReturn(FALSE, 0)
           ELSE LET b == isLeafBreak(heap, root, str, f.start, f.end, f.i)
                    g == [f EXCEPT !.i = b.mid, !.bPartOne = b.ret,
                                   !.iters = f.iters + 1]
                IN  IF g.i = g.end
                    THEN SegReturn(b.ret, IF b.ret THEN 1 ELSE 0)
                    ELSE /\ ret' = NoRet
                         /\ stack' = Append(SetTop(stack, [g EXCEPT !.at = "wait"]),
                                            Frame(g.i + 1, g.end))
    /\ UNCHANGED <<pc, readVars, mainVars, memVars>>

\* Variant: the loop goes round without i++.
SegResume_noInc ==
    /\ pc = "call"
    /\ stack # <<>>
    /\ Top(stack).at = "wait"
    /\ ret.valid
    /\ LET f == Top(stack)
       IN  IF f.bPartOne /\ ret.result
           THEN SegReturn(TRUE, 1 + ret.cnt)
           ELSE /\ ret' = NoRet
                /\ stack' = SetTop(stack, [f EXCEPT !.at = "loop"])
    /\ UNCHANGED <<pc, readVars, mainVars, memVars>>

\* The recursive call has returned (lines 131-135).
SegResume ==
    /\ pc = "call"
    /\ stack # <<>>
    /\ Top(stack).at = "wait"
    /\ ret.valid
    /\ LET f == Top(stack)
       IN  IF f.bPartOne /\ ret.result
           THEN SegReturn(TRUE, 1 + ret.cnt)
           ELSE /\ ret' = NoRet
                /\ stack' = SetTop(stack, [f EXCEPT !.i = f.i + 1, !.at = "loop"])
    /\ UNCHANGED <<pc, readVars, mainVars, memVars>>

\* ------------------------------------------------------------------ main
\* The test of the outer loop (line 195); past it, line 214 and the call
\* of trieDestroy(root).
OuterTest ==
    /\ pc = "outer"
    /\ IF rit # 0
       THEN /\ pc' = "inner"
            /\ it' = 1
            /\ UNCHANGED memVars
       ELSE /\ pc' = "destroy"
            /\ it' = it
            /\ dstack' = <<[owner |-> NULL, slot |-> 0, i |-> 0, at |-> "enter"]>>
            /\ destroyCalls' = destroyCalls + 1
            /\ UNCHANGED <<freeLog, memFault>>
    /\ UNCHANGED <<readVars, rit, found, cntConcat, foundWords, output, console,
                   visited, segVars>>

\* The test of the inner loop (line 200) and the call of line 202.
InnerTest ==
    /\ pc = "inner"
    /\ IF it <= Len(wordsWithSameLen[rit])
       THEN /\ pc' = "call"
            /\ found' = FALSE
            /\ SegCall(0, Len(str) - 1)
            /\ visited' = Append(visited, str)
            /\ UNCHANGED rit
       ELSE /\ pc' = "outer"
            /\ rit' = rnext(LengthSet, rit)
            /\ UNCHANGED <<found, visited, segVars>>
    /\ UNCHANGED <<readVars, it, cntConcat, foundWords, output, console, memVars>>

\* Variant: a found word is reported whatever its count.
InnerResult_anyCount ==
    /\ pc = "call"
    /\ stack = <<>>
    /\ ret.valid
    /\ pc' = "inner"
    /\ found' = ret.result
    /\ cntConcat' = ret.cnt
    /\ ret' = NoRet
    /\ IF ret.result
       THEN /\ console' = IF foundWords = 0
                          THEN Append(console, <<"longest", str>>)
                          ELSE IF foundWords = 1
                               THEN Append(console, <<"second", str>>)
                               ELSE console
            /\ foundWords' = foundWords + 1
            /\ output' = Append(output, str)
       ELSE UNCHANGED <<console, foundWords, output>>
    /\ it' = it + 1
    /\ UNCHANGED <<readVars, rit, visited, stack, memVars>>

\* concatWord has returned to main (lines 202-210).
InnerResult ==
    /\ pc = "call"
    /\ stack = <<>>
    /\ ret.valid
    /\ pc' = "inner"
    /\ found' = ret.result
    /\ cntConcat' = ret.cnt
    /\ ret' = NoRet
    /\ IF ret.result /\ ret.cnt > 1
       THEN /\ console' = IF foundWords = 0
                          THEN Append(console, <<"longest", str>>)
                          ELSE IF foundWords = 1
                               THEN Append(console, <<"second", str>>)
                               ELSE console
            /\ foundWords' = foundWords + 1
            /\ output' = Append(output, str)
       ELSE UNCHANGED <<console, foundWords, output>>
    /\ it' = it + 1
    /\ UNCHANGED <<readVars, rit, visited, stack, memVars>>

\* ----------------------------------------------------------- trieDestroy
\* A frame of trieDestroy holds the reference it was given: main's root
\* (owner NULL) or the child slot `slot` of the node `owner`.
Freed == {freeLog[k] : k \in 1..Len(freeLog)}

Deref(f) == IF f.owner = NULL THEN root ELSE heap[f.owner].character[f.slot]

\* Reading or writing through the reference touches the owner node.
Touches(f) == f.owner # NULL /\ f.owner \in Freed

\* Return to the caller, which goes on to the next child (line 62).
DestroyReturn ==
    LET s == Pop(dstack)
    IN  IF s = <<>>
        THEN /\ dstack' = s
             /\ pc' = "done"
        ELSE /\ dstack' = SetTop(s, [Top(s) EXCEPT !.i = Top(s).i + 1])
             /\ pc' = pc

\* Lines 60-61: the NULL test.
DestroyEnter ==
    /\ pc = "destroy"
    /\ Top(dstack).at = "enter"
    /\ memFault' = (memFault \/ Touches(Top(dstack)))
    /\ IF Deref(Top(dstack)) = NULL
       THEN DestroyReturn
       ELSE /\ dstack' = SetTop(dstack, [Top(dstack) EXCEPT !.at = "loop"])
            /\ pc' = pc
    /\ UNCHANGED <<readVars, mainVars, segVars, freeLog, destroyCalls>>

\* Lines 62-63: the call on the next child slot.
DestroyCall ==
    /\ pc = "destroy"
    /\ Top(dstack).at = "loop"
    /\ Top(dstack).i < CHAR_SIZE
    /\ memFault' = (memFault \/ Touches(Top(dstack)))
    /\ dstack' = Append(dstack, [owner |-> Deref(Top(dstack)), slot |-> Top(dstack).i,
                                 i |-> 0, at |-> "enter"])
    /\ UNCHANGED <<pc, readVars, mainVars, segVars, freeLog, destroyCalls>>

\* Variant: free(node) without node = NULL.
DestroyFree_noNull ==
    /\ pc = "destroy"
    /\ Top(dstack).at = "loop"
    /\ Top(dstack).i >= CHAR_SIZE
    /\ LET f == Top(dstack)
           n == Deref(f)
       IN  /\ memFault' = (memFault \/ Touches(f) \/ n \in Freed)
           /\ freeLog' = Append(freeLog, n)
           /\ UNCHANGED <<root, heap>>
    /\ DestroyReturn
    /\ UNCHANGED <<input, wordsWithSameLen, LengthSet, cntWords, mainVars, segVars,
                   destroyCalls>>

\* Lines 65-66: free(node); node = NULL.
DestroyFree ==
    /\ pc = "destroy"
    /\ Top(dstack).at = "loop"
    /\ Top(dstack).i >= CHAR_SIZE
    /\ LET f == Top(dstack)
           n == Deref(f)
       IN  /\ memFault' = (memFault \/ Touches(f) \/ n \in Freed)
           /\ freeLog' = Append(freeLog, n)
           /\ IF f.owner = NULL
              THEN /\ root' = NULL
                   /\ heap' = heap
              ELSE /\ root' = root
                   /\ heap' = [heap EXCEPT ![f.owner].character[f.slot] = NULL]
    /\ DestroyReturn
    /\ UNCHANGED <<input, wordsWithSameLen, LengthSet, cntWords, mainVars, segVars,
                   destroyCalls>>

\* trieDestroy(root) called once more on the same root.  main does not do
\* this; it is the second call the destroy contract speaks of.
DestroyAgain ==
    /\ pc = "done"
    /\ destroyCalls = 1
    /\ pc' = "destroy"
    /\ dstack' = <<[owner |-> NULL, slot |-> 0, i |-> 0, at |-> "enter"]>>
    /\ destroyCalls' = destroyCalls + 1
    /\ UNCHANGED <<readVars, mainVars, segVars, freeLog, memFault>>

Next ==
    \/ \E w \in Words : ReadWord(w)
    \/ ReadEOF
    \/ OuterTest
    \/ InnerTest
    \/ SegIter
    \/ SegResume
    \/ InnerResult
    \/ DestroyEnter
    \/ DestroyCall
    \/ DestroyFree
    \/ DestroyAgain

Spec == Init /\ [][Next]_vars

\* The program runs on: a step is taken whenever one is possible.
SpecFair == Spec /\ WF_vars(Next)

\* ------------------------------------------------- what the claims speak of
\* The dictionary: the set of the words inserted so far.
Dict == {input[k] : k \in 1..Len(input)}

\* The characters start..end (0-based, inclusive) of w.
Sub(w, start, end) == SubSeq(w, start + 1, end + 1)

IsPrefix(p, w) == Len(p) <= Len(w) /\ SubSeq(w, 1, Len(p)) = p

\* A partition of the range start..end is the set of the positions after
\* which it is cut; its pieces end at the cuts and at end.
Cuts(start, end) == SUBSET (start..(end - 1))
PieceStart(C, start, b) == IF \E c \in C : c < b
                           THEN Max({c \in C : c < b}) + 1 ELSE start
IsPartition(D, w, start, end, C) ==
    \A b \in C \cup {end} : Sub(w, PieceStart(C, start, b), b) \in D

\* start..end splits into one or more (into two or more) words of D.
Segmentable(D, w, start, end) ==
    start <= end /\ \E C \in Cuts(start, end) : IsPartition(D, w, start, end, C)
Compound(D, w, start, end) ==
    start <= end /\ \E C \in Cuts(start, end) :
                        C # {} /\ IsPartition(D, w, start, end, C)

Count(seq, x) == Cardinality({k \in 1..Len(seq) : seq[k] = x})

\* The trie is built and not yet destroyed.
TrieLive == pc \in {"read", "outer", "inner", "call"}
ScanDone == pc \in {"destroy", "done"}

\* ---------------------------------------------------------------- claims
\* C1: concatWord(w, start, end) reports found exactly when the range
\* w[start..end] splits into one or more dictionary words; a dictionary
\* word is always found on its full range; an empty range gives (false, 0).
\* Stated of every word and range on every trie the loader builds, and of
\* every call the running program has completed.
C1_Segmentation ==
    /\ pc = "read" =>
          \A w \in Words : \A start \in 0..(Len(w) - 1) : \A end \in 0..(Len(w) - 1) :
             LET r == concatWord(heap, root, w, start, end)
             IN  /\ r.result <=> Segmentable(Dict, w, start, end)
                 /\ start > end => (~r.result /\ r.cnt = 0)
                 /\ (w \in Dict /\ start = 0 /\ end = Len(w) - 1) => r.result
    /\ (pc = "call" /\ ret.valid) =>
          IF stack = <<>>
          THEN ret.result <=> Segmentable(Dict, str, 0, Len(str) - 1)
          ELSE ret.result <=>
                 Segmentable(Dict, str, Top(stack).i + 1, Top(stack).end)

\* A recursive call of the running program has returned not found after a
\* first piece that is a word, on a trie where some word outside the
\* dictionary splits into dictionary words.
C1_Witness ==
    /\ pc = "call"
    /\ ret.valid
    /\ stack # <<>>
    /\ ~ret.result
    /\ Top(stack).bPartOne
    /\ \E w \in Words \ Dict : concatWord(heap, root, w, 0, Len(w) - 1).result

\* C2: the full-range call reports found with a count above 1 exactly for
\* the words that split into two or more dictionary words, and when the
\* scan is over the output file holds exactly the input words that do, each
\* as often as it was read.
C2_CompoundDetection ==
    /\ pc = "read" =>
          \A w \in Words :
             LET r == concatWord(heap, root, w, 0, Len(w) - 1)
             IN  (r.result /\ r.cnt > 1) <=> Compound(Dict, w, 0, Len(w) - 1)
    /\ ScanDone =>
          \A w \in Dict \cup {output[k] : k \in 1..Len(output)} :
             Count(output, w) = IF Compound(Dict, w, 0, Len(w) - 1)
                                THEN Count(input, w) ELSE 0

\* The scan is over, it reported a word and passed over another one that is
\* in the dictionary but is no compound.
C2_Witness ==
    /\ pc = "destroy"
    /\ \E k \in 1..Len(output) : Len(output[k]) >= 3
    /\ \E w \in Dict : Len(w) >= 2 /\ Count(output, w) = 0

NonIncreasing(seq) ==
    \A j \in 1..Len(seq) : \A k \in 1..Len(seq) :
       j < k => Len(seq[j]) >= Len(seq[k])

RECURSIVE ByLength(_, _)
ByLength(ws, len) ==
    IF len = 0 THEN <<>>
    ELSE SelectSeq(ws, LAMBDA w : Len(w) = len) \o ByLength(ws, len - 1)
LongestFirst(ws) == ByLength(ws, MaxLen)

IsCompoundWord(w) == Compound(Dict, w, 0, Len(w) - 1)

\* C3: main passes the words to concatWord longest length first and, within
\* a length, in file order; the reported words come in non-increasing
\* length, the first is labelled longest and no qualifying word is longer,
\* the second is labelled second longest, and foundWords counts the words
\* reported.
C3_LongestFirst ==
    /\ NonIncreasing(visited)
    /\ NonIncreasing(output)
    /\ pc # "read" => IsPrefix(visited, LongestFirst(input))
    /\ ScanDone => /\ visited = LongestFirst(input)
                   /\ output = SelectSeq(LongestFirst(input), IsCompoundWord)
                   /\ output # <<>> =>
                         \A w \in Dict : IsCompoundWord(w) => Len(w) <= Len(output[1])
    /\ foundWords = Len(output)
    /\ Len(console) = IF Len(output) < 2 THEN Len(output) ELSE 2
    /\ Len(output) >= 1 => console[1] = <<"longest", output[1]>>
    /\ Len(output) >= 2 => console[2] = <<"second", output[2]>>

\* Two words were reported, the longer first although it was read last.
C3_Witness ==
    /\ pc = "destroy"
    /\ Len(output) = 2
    /\ Len(output[1]) > Len(output[2])
    /\ \E j \in 1..Len(input) : \E k \in 1..Len(input) :
          j < k /\ input[j] = output[2] /\ input[k] = output[1]

ExactMatch(w) == isLeafBreak(heap, root, w, 0, Len(w) - 1, Len(w) - 1).ret

\* C4: the exact-match lookup isLeafBreak(w, 0, |w|-1, |w|-1) is true exactly
\* for the inserted words, on every trie the loader builds.
C4_Membership ==
    pc = "read" => \A w \in Words : ExactMatch(w) <=> w \in Dict

\* A word that was not inserted is a proper prefix of an inserted word, and
\* another one has an inserted proper prefix; both lookups are false.
C4_Witness ==
    /\ pc = "read"
    /\ \E v \in Dict : \E w \in Words \ Dict :
          Len(w) < Len(v) /\ IsPrefix(w, v) /\ ~ExactMatch(w)
    /\ \E v \in Dict : \E w \in Words \ Dict :
          Len(v) < Len(w) /\ IsPrefix(v, w) /\ ~ExactMatch(w)
    /\ \E v \in Dict : ExactMatch(v)

Paths == UNION {[1..n -> 0..(CHAR_SIZE - 1)] : n \in 0..MaxLen}
Spell(w) == [k \in 1..Len(w) |-> w[k] - ORD_A]

RECURSIVE Walk(_, _, _)
Walk(h, node, path) ==
    IF node = NULL \/ path = <<>> THEN node
    ELSE Walk(h, h[node].character[Head(path)], Tail(path))

SpellsPrefix(P) == \E w \in Dict : IsPrefix(P, Spell(w))
SpellsWord(P) == \E w \in Dict : P = Spell(w)

C5_Terminal ==
    \A P \in Paths :
       Walk(heap, root, P) # NULL => (heap[Walk(heap, root, P)].isLeaf <=> SpellsWord(P))

C5_Structure ==
    pc = "read" =>
       /\ \A P \in Paths : Walk(heap, root, P) # NULL <=> (P = <<>> \/ SpellsPrefix(P))
       /\ C5_Terminal
       /\ \A n \in DOMAIN heap : \E P \in Paths : Walk(heap, root, P) = n

C5_Monotone ==
    pc = "read" =>
       \A n \in DOMAIN heap :
          /\ n \in DOMAIN heap'
          /\ heap[n].isLeaf => heap'[n].isLeaf
          /\ \A c \in 0..(CHAR_SIZE - 1) :
                heap[n].character[c] # NULL =>
                   heap'[n].character[c] = heap[n].character[c]

\* C5: while the loader runs, the node reached from the root along an edge
\* sequence exists exactly when the sequence is empty or spells a prefix of
\* an inserted word, its isLeaf flag is set exactly when the sequence spells
\* an inserted word, and every allocated node is reached; an insert removes
\* no node, no edge and no isLeaf flag.
C5_TrieInvariant == []C5_Structure /\ [][C5_Monotone]_vars

\* C5 as stated: a node is reached along S exactly when S is a prefix of
\* some inserted word.
C5_AsStated ==
    pc = "read" =>
       /\ \A P \in Paths : Walk(heap, root, P) # NULL <=> SpellsPrefix(P)
       /\ C5_Terminal

\* A trie with an inner isLeaf node, a node with two children and a node
\* below the root that is no word's end.
C5_Witness ==
    /\ pc = "read"
    /\ Len(input) >= 3
    /\ \E n \in DOMAIN heap :
          heap[n].isLeaf /\ \E c \in 0..(CHAR_SIZE - 1) : heap[n].character[c] # NULL
    /\ \E n \in DOMAIN heap :
          Cardinality({c \in 0..(CHAR_SIZE - 1) : heap[n].character[c] # NULL}) >= 2
    /\ \E n \in DOMAIN heap \ {root} : ~heap[n].isLeaf

\* C6: inserting a word that is already in the trie leaves every node, edge
\* and flag as it was.
C6_InsertIdempotent ==
    pc = "read" => \A w \in Dict : insertWord(heap, root, w) = heap

\* The loader has inserted a word a second time, into a trie where that
\* word ends at an inner node.
C6_Witness ==
    /\ pc = "read"
    /\ \E j \in 1..Len(input) : \E k \in 1..Len(input) :
          /\ j < k
          /\ input[j] = input[k]
          /\ \E v \in Dict : Len(input[j]) < Len(v) /\ IsPrefix(input[j], v)

BreakPositions(D, w, start, end, mid) == {p \in mid..end : Sub(w, start, p) \in D}
HasPath(D, w, start, end) == \E v \in D : IsPrefix(Sub(w, start, end), v)

ExpectedBreak(D, w, start, end, mid) ==
    LET P == BreakPositions(D, w, start, end, mid)
    IN  IF P # {} THEN [ret |-> TRUE, mid |-> Min(P)]
        ELSE IF ~HasPath(D, w, start, end) THEN [ret |-> FALSE, mid |-> mid]
        ELSE [ret |-> Sub(w, start, end) \in D, mid |-> end]

\* C7: for start <= mid <= end, isLeafBreak succeeds with the smallest
\* position p in mid..end at which word[start..p] is an inserted word; with
\* no such p it fails, leaving mid alone when an edge of the range is
\* missing and setting it to end when the whole range was walked.
C7_FindBreak ==
    pc = "read" =>
       \A w \in Words : \A start \in 0..(Len(w) - 1) : \A end \in start..(Len(w) - 1) :
          \A mid \in start..end :
             isLeafBreak(heap, root, w, start, end, mid)
                = ExpectedBreak(Dict, w, start, end, mid)

\* On one trie: a success past a word end that lies before mid, a success
\* beyond mid, a failure on a missing edge, and a walk of the whole range
\* without a hit.
C7_Witness ==
    /\ pc = "read"
    /\ \E w \in Words : \E mid \in 1..(Len(w) - 1) :
          LET b == isLeafBreak(heap, root, w, 0, Len(w) - 1, mid)
          IN  b.ret /\ Sub(w, 0, 0) \in Dict
    /\ \E w \in Words :
          LET b == isLeafBreak(heap, root, w, 0, Len(w) - 1, 0)
          IN  b.ret /\ b.mid > 0
    /\ \E w \in Words :
          LET b == isLeafBreak(heap, root, w, 0, Len(w) - 1, 1)
          IN  ~b.ret /\ b.mid = 1 /\ Len(w) > 2 /\ Sub(w, 0, 0) \in Dict
    /\ \E w \in Words : \E end \in 1..(Len(w) - 1) : \E mid \in 0..(end - 1) :
          LET b == isLeafBreak(heap, root, w, 0, end, mid)
          IN  ~b.ret /\ b.mid = end

Splits(D, w, start, end) ==
    {p \in start..end :
        Sub(w, start, p) \in D /\ (p = end \/ Segmentable(D, w, p + 1, end))}

RECURSIVE LeftCount(_, _, _, _)
LeftCount(D, w, start, end) ==
    LET S == Splits(D, w, start, end)
    IN  IF S = {} THEN 0
        ELSE IF Min(S) = end THEN 1 ELSE 1 + LeftCount(D, w, Min(S) + 1, end)

\* C8: a found concatWord stopped at the smallest position p at which
\* w[start..p] is a word and p = end or the rest p+1..end is found; its
\* count is 1 at p = end and 1 + the rest's count otherwise, which is the
\* size of a partition into words and lies in 1..end-start+1; the count is
\* 0 exactly when nothing was found; a recursive call's range is the rest
\* i+1..end of its caller's.
C8_LeftBiased ==
    /\ pc = "read" =>
          \A w \in Words : \A start \in 0..(Len(w) - 1) : \A end \in start..(Len(w) - 1) :
             LET r == concatWord(heap, root, w, start, end)
                 S == Splits(Dict, w, start, end)
             IN  /\ r.result =>
                       /\ S # {}
                       /\ r.brk = Min(S)
                       /\ r.cnt = LeftCount(Dict, w, start, end)
                       /\ r.cnt \in 1..(end - start + 1)
                       /\ \E C \in Cuts(start, end) :
                             /\ IsPartition(Dict, w, start, end, C)
                             /\ Cardinality(C) + 1 = r.cnt
                 /\ r.cnt = 0 <=> ~r.result
    /\ \A k \in 2..Len(stack) :
          /\ stack[k - 1].at = "wait"
          /\ stack[k].start = stack[k - 1].i + 1
          /\ stack[k].end = stack[k - 1].end
    /\ (pc = "call" /\ ret.valid) =>
          /\ ret.cnt = 0 <=> ~ret.result
          /\ ret.cnt = IF stack = <<>>
                       THEN LeftCount(Dict, str, 0, Len(str) - 1)
                       ELSE LeftCount(Dict, str, Top(stack).i + 1, Top(stack).end)

\* The program's call on a dictionary word has returned 2 pieces after a
\* shorter first piece, itself a word, whose rest did not split.
C8_Witness ==
    /\ pc = "call"
    /\ stack = <<>>
    /\ ret.valid
    /\ ret.cnt = 2
    /\ \E p \in 0..(Len(str) - 2) :
          Sub(str, 0, p) \in Dict /\ ~Segmentable(Dict, str, p + 1, Len(str) - 1)

RECURSIVE Build(_, _, _)
Build(h, node, ws) ==
    IF ws = <<>> THEN h ELSE Build(insertWord(h, node, Head(ws)), node, Tail(ws))

\* The trie as the loader left it, before any node was freed.
Built == Build(create(<<>>, NULL).heap, create(<<>>, NULL).node, input)
ChildrenOf(n) == {Built[n].character[c] : c \in 0..(CHAR_SIZE - 1)} \ {NULL}

\* C9: trieDestroy frees every allocated node exactly once, a node only
\* after all its children, touches no freed node, and leaves root NULL; a
\* second trieDestroy(root) frees and changes nothing.
C9_Destroy ==
    /\ ~memFault
    /\ \A j \in 1..Len(freeLog) : \A k \in 1..Len(freeLog) :
          j # k => freeLog[j] # freeLog[k]
    /\ Freed \subseteq DOMAIN heap
    /\ \A k \in 1..Len(freeLog) : \A m \in ChildrenOf(freeLog[k]) :
          \E j \in 1..(k - 1) : freeLog[j] = m
    /\ TrieLive => (freeLog = <<>> /\ root # NULL)
    /\ pc = "done" => (root = NULL /\ Freed = DOMAIN heap)
    /\ destroyCalls = 2 => (root = NULL /\ Freed = DOMAIN heap /\ Len(dstack) <= 1)

\* Both calls are over on a trie of at least five nodes with a node of two
\* children.
C9_Witness ==
    /\ pc = "done"
    /\ destroyCalls = 2
    /\ Len(freeLog) >= 5
    /\ \E n \in DOMAIN heap : Cardinality(ChildrenOf(n)) >= 2

C10_Frames ==
    \A k \in 1..Len(stack) :
       /\ stack[k].start <= stack[k].i
       /\ stack[k].i <= stack[k].end
       /\ stack[k].iters <= stack[k].end - stack[k].start + 1
       /\ k > 1 => /\ stack[k].start > stack[k - 1].start
                   /\ stack[k].start >= stack[k - 1].i + 1
                   /\ stack[k].end - stack[k].start
                         < stack[k - 1].end - stack[k - 1].start

C10_Forward ==
    \A k \in 1..Len(stack) :
       k <= Len(stack') =>
          /\ stack'[k].start = stack[k].start
          /\ stack'[k].end = stack[k].end
          /\ stack'[k].i >= stack[k].i

\* C10: in every call of concatWord the index i stays in start..end and
\* only moves forward, the loop body is begun at most end-start+1 times, a
\* recursive call has a non-empty range that starts after its caller's;
\* every call returns to main and main reaches its end.
C10_Termination ==
    /\ []C10_Frames
    /\ [][C10_Forward]_vars
    /\ (pc = "call") ~> (pc = "inner")
    /\ <>(pc = "done")

\* A call two levels deep whose outer index isLeafBreak has moved ahead of
\* the pass count.
C10_Witness ==
    /\ pc = "call"
    /\ Len(stack) >= 2
    /\ stack[1].i > stack[1].start + stack[1].iters - 1
====
